---- MODULE Spec2Model ----
(***************************************************************************)
(* A model of the shop service of the Henalis backend                      *)
(* (app/services/shop_service.py), and of the delete endpoints of          *)
(* app/routers/shop.py, over its tables (app/models/shop.py).              *)
(*                                                                         *)
(* The tables are the committed state of the database.  A request handler  *)
(* is a process: pc is its position between two database round trips, arg *)
(* its arguments, tx the writes of its open transaction (the rows it has   *)
(* written are the rows it holds locked), ret what it returned last.       *)
(*                                                                         *)
(* Optional[T] is modelled as a set with at most one element: {} is None.  *)
(***************************************************************************)
EXTENDS Integers, Sequences, FiniteSets, TLC

VARIABLES
    items,      \* table items: id -> row
    images,     \* table item_images: id -> row
    wishlist,   \* table wishlists: id -> row
    categories, \* table categories: id -> row
    materials,  \* table materials: id -> row
    tags,       \* table tags: id -> row
    req,        \* the request of the last single-step call (listing, bulk)
    resp,       \* its response
    pc,         \* per process: position in its handler
    arg,        \* per process: arguments of its current / last call
    tx,         \* per process: uncommitted writes of its transaction
    ret,        \* per process: what its last call returned or raised
    likeCalls,  \* per item: increment_item_likes calls that have returned
    nextId,     \* the next fresh row id (uuid4 never repeats)
    now         \* the database clock: what func.now() gives next

vars == <<items, images, wishlist, categories, materials, tags, req, resp, pc, arg, tx, ret, likeCalls, nextId, now>>

-----------------------------------------------------------------------------
(* Universes.                                                              *)

\* Prices are 1..MaxPrice (Numeric(10,2), positive by the request schema).
MaxPrice == 2

ItemIds == {1, 2, 3}
Prices == 1..MaxPrice
Procs == {1, 2}

Min(a, b) == IF a <= b THEN a ELSE b

\* Texts are sequences of characters.  A character is a number: 1, 2, 3 are
\* the letters a, b, c; 11, 12, 13 their capitals; 20 is the comma, 21 the
\* space; 30 + n stands for the 36 characters of the uuid n.
IdText(n) == <<30 + n>>

CategoryIds == {1, 2}
MaterialIds == {1}
TagIds == {1, 2, 3}

\* The seeded categories, materials and tags: two categories of one name
\* with their own slugs, a material, three tags with their own names; only
\* category 2 has a description, and each was last updated when it was
\* created.
StoredCategories ==
    [c \in CategoryIds |->
        [name |-> <<11>>, slug |-> IF c = 1 THEN <<2, 1>> ELSE <<3>>,
         description |-> IF c = 2 THEN {<<3>>} ELSE {}, updated_at |-> 1]]

StoredMaterials ==
    [m \in MaterialIds |-> [name |-> <<1>>, description |-> {}, updated_at |-> 1]]

StoredTags == [t \in TagIds |-> [name |-> <<t>>, updated_at |-> 1]]

\* The columns of a seeded item that are a function of its id: name,
\* description (None for items 1 and 3), category (None for item 3),
\* material (None for item 2) and the tags item_tags joins to it.
ItemName(i) == CASE i = 1 -> <<11, 2>> [] i = 2 -> <<2>> [] OTHER -> <<2, 2>>

ItemDescription(i) == IF i = 2 THEN {<<3, 1>>} ELSE {}

ItemCategory(i) == CASE i = 1 -> {1} [] i = 2 -> {2} [] OTHER -> {}

ItemMaterial(i) == IF i = 2 THEN {} ELSE {1}

ItemTags(i) == CASE i = 1 -> {1, 2} [] i = 2 -> {2} [] OTHER -> {}

\* The database after seeding: every item row has its own sku (a one-letter
\* text, stored as its letter), nothing in stock (the column's default) and
\* was last updated when it was created.
ItemRow(i, price, active, likes) ==
    [sku |-> i, price |-> price, is_active |-> active, likes |-> likes,
     stock_quantity |-> 0,
     name |-> ItemName(i), description |-> ItemDescription(i),
     category_id |-> ItemCategory(i), material_id |-> ItemMaterial(i),
     tags |-> ItemTags(i),
     created_at |-> (i + 1) \div 2, updated_at |-> (i + 1) \div 2]

\* likes of a seeded item.
SeedLikes(i) == IF i = 1 THEN 0 ELSE 1

ItemTables ==
    UNION { [S -> {[price |-> p, is_active |-> a] : p \in Prices, a \in BOOLEAN}]
            : S \in SUBSET ItemIds }

\* Fill in the columns that are a function of the id.
Seeded(t) ==
    [i \in DOMAIN t |-> ItemRow(i, t[i].price, t[i].is_active, SeedLikes(i))]

\* The items of the specifications that leave the table alone: 1 and 2 exist,
\* 3 does not.
StoredItems == [i \in {1, 2} |-> ItemRow(i, i, TRUE, IF i = 1 THEN 0 ELSE 5)]

\* The latest timestamp stored in the items.
Latest(t) ==
    LET S == {t[i].updated_at : i \in DOMAIN t} \cup {0}
    IN CHOOSE m \in S : \A x \in S : x <= m

\* The catalog and the clock of every initial state: the clock is past every
\* stored timestamp.
SeededCatalog ==
    /\ categories = StoredCategories
    /\ materials = StoredMaterials
    /\ tags = StoredTags
    /\ now = Latest(items) + 1

NoRequest ==
    /\ req = [op |-> "none"]
    /\ resp = [status |-> "none"]

NoProcState ==
    /\ pc = [p \in Procs |-> "idle"]
    /\ arg = [p \in Procs |-> [op |-> "none"]]
    /\ tx = [p \in Procs |-> <<>>]
    /\ ret = [p \in Procs |-> [kind |-> "none", id |-> {}]]

-----------------------------------------------------------------------------
(* Transactions.  The database runs each session's transaction at READ     *)
(* COMMITTED: a statement reads committed rows, an UPDATE or DELETE locks   *)
(* the rows it writes until its transaction commits, and a statement that  *)
(* needs a row another transaction holds waits for that transaction.       *)

Key(table, id) == <<table, id>>

LockedByOther(p, k) == \E q \in Procs \ {p} : k \in DOMAIN tx[q]

\* The rows of `table` after the writes w of a committing transaction.
Committed(table, t, w) ==
    [i \in DOMAIN t |-> IF Key(table, i) \in DOMAIN w THEN w[Key(table, i)] ELSE t[i]]

Without(t, S) == [i \in DOMAIN t \ S |-> t[i]]

-----------------------------------------------------------------------------
(* Item listing: ShopService.get_items_with_filters.                       *)

DefaultLimit == 12

\* The four sort keys the builder knows, and one it does not.
Sorts == {"newest", "price-low", "price-high", "most-loved", "oldest"}
Limits == {1, 2, DefaultLimit}
Offsets == {0, 1}
OptPrice == {{}} \cup {{v} : v \in Prices}
OptBool == {{}, {TRUE}, {FALSE}}

\* Text arguments: None, or a text.  category: the uuid text or the slug of
\* category 1; material: the uuid text of material 1 or "c"; tags: ",",
\* "<uuid 1>, <uuid 2>", "<uuid 3>" or "<uuid 1>,c"; q: "", "A" or "c".
OptCategory == {{}, {IdText(1)}, {StoredCategories[1].slug}}
OptMaterial == {{}, {IdText(1)}, {<<3>>}}
OptTags ==
    {{}, {<<20>>}, {IdText(1) \o <<20, 21>> \o IdText(2)}, {IdText(3)},
     {IdText(1) \o <<20, 3>>}}
OptQ == {{}, {<<>>}, {<<11>>}, {<<3>>}}

\* Requests whose filters the query builder can build ...
PlainRequests ==
    [category : {{}}, material : {{}}, tags : {{}}, q : {{}},
     price_min : OptPrice, price_max : OptPrice, is_active : OptBool,
     sort : Sorts, limit : Limits, offset : Offsets]

\* ... and requests that name a category, a material, tags or a search text.
NamedRequests ==
    { r \in [category : OptCategory, material : OptMaterial, tags : OptTags, q : OptQ,
             price_min : OptPrice, price_max : {{}}, is_active : OptBool,
             sort : {"newest"}, limit : {DefaultLimit}, offset : {0}] :
        r.category \cup r.material \cup r.tags \cup r.q /= {} }

Requests == PlainRequests \cup NamedRequests

\* `if category:` and the like: None and "" are falsy.
Truthy(opt) == \E v \in opt : v /= <<>>

\* str.lower() and func.lower(): capitals to their letters.
Lower(text) ==
    [k \in DOMAIN text |-> IF text[k] \in 11..13 THEN text[k] - 10 ELSE text[k]]

\* LIKE '%s%': s occurs in text.
Contains(text, s) ==
    \E k \in 0..(Len(text) - Len(s)) : SubSeq(text, k + 1, k + Len(s)) = s

\* str.split(","): the pieces between the commas.
RECURSIVE Split(_)
Split(text) ==
    IF \E k \in DOMAIN text : text[k] = 20
    THEN LET k == CHOOSE x \in DOMAIN text :
                      text[x] = 20 /\ \A y \in 1..(x - 1) : text[y] /= 20
         IN <<SubSeq(text, 1, k - 1)>> \o Split(SubSeq(text, k + 1, Len(text)))
    ELSE <<text>>

\* str.strip(): without the spaces at either end.
RECURSIVE Strip(_)
Strip(text) ==
    IF text /= <<>> /\ Head(text) = 21 THEN Strip(Tail(text))
    ELSE IF text /= <<>> /\ text[Len(text)] = 21
    THEN Strip(SubSeq(text, 1, Len(text) - 1))
    ELSE text

\* tag_ids (line 157): the stripped, non-empty pieces of tags.
TagIdList(opt) ==
    UNION {{Strip(Split(v)[k]) : k \in DOMAIN Split(v)} : v \in opt} \ {<<>>}

\* The branches of the query builder that use or_ and String, two names the
\* module never imports (lines 21-23): reaching one raises NameError.
RaisesNameError(r) ==
    \/ Truthy(r.category)                          \* line 135: or_(...)
    \/ Truthy(r.material)                          \* line 147: cast(String)
    \/ Truthy(r.tags) /\ TagIdList(r.tags) /= {}   \* line 161: cast(String)
    \/ Truthy(r.q)                                 \* line 172: or_(...)

\* Outer join of the item's category, slug or uuid text equal to the
\* argument (lines 140-143).
CategoryClause(row, r) ==
    Truthy(r.category) =>
        \E c \in row.category_id \cap DOMAIN categories : \E v \in r.category :
            categories[c].slug = v \/ IdText(c) = v

\* Item.material_id.cast(String) == material (line 147).
MaterialClause(row, r) ==
    Truthy(r.material) => \E m \in row.material_id : IdText(m) \in r.material

\* Join of item_tags and tags, Tag.id.cast(String) IN tag_ids (lines
\* 160-161); distinct() (line 180) keeps one row of an item however many of
\* its tags match.
TagsClause(row, r) ==
    (Truthy(r.tags) /\ TagIdList(r.tags) /= {}) =>
        \E t \in row.tags : IdText(t) \in TagIdList(r.tags)

\* lower(name), lower(sku) or lower(description) LIKE %q.lower()% (lines
\* 169-177); a NULL description matches nothing.
QClause(row, r) ==
    Truthy(r.q) =>
        \E v \in r.q :
            \/ Contains(Lower(row.name), Lower(v))
            \/ Contains(Lower(<<row.sku>>), Lower(v))
            \/ \E d \in row.description : Contains(Lower(d), Lower(v))

PriceMinClause(row, r) == \A v \in r.price_min : row.price >= v

PriceMaxClauseDropped(row, r) == TRUE

PriceMaxClause(row, r) == \A v \in r.price_max : row.price <= v

IsActiveClause(row, r) == \A b \in r.is_active : row.is_active = b

\* The WHERE clause of base_q.
Where(row, r) ==
    /\ CategoryClause(row, r)
    /\ MaterialClause(row, r)
    /\ PriceMinClause(row, r)
    /\ PriceMaxClause(row, r)
    /\ TagsClause(row, r)
    /\ IsActiveClause(row, r)
    /\ QClause(row, r)

OrderAny(a, b, sort) == TRUE

\* ORDER BY: a before b is allowed by the sort key (ties in either order).
OrderOK(a, b, sort) ==
    CASE sort = "price-low"  -> a.price <= b.price
      [] sort = "price-high" -> a.price >= b.price
      [] sort = "most-loved" -> a.likes >= b.likes
      [] OTHER               -> a.created_at >= b.created_at

\* Every order in which the database may return the rows of S.
Ordered(t, S, sort) ==
    { s \in [1..Cardinality(S) -> S] :
        /\ \A k, l \in DOMAIN s : k < l => s[k] /= s[l] /\ OrderOK(t[s[k]], t[s[l]], sort) }

PageFromStart(s, limit, offset) == SubSeq(s, 1, Min(Len(s), limit))

\* LIMIT / OFFSET.
Page(s, limit, offset) ==
    SubSeq(s, offset + 1, Min(Len(s), offset + limit))

\* select(func.count(Item.id)): the rows of the table.
CountTotal(t, r) == Cardinality(DOMAIN t)

\* The results the call may produce on table t.
get_items_with_filters(t, r) ==
    IF RaisesNameError(r)
    THEN { [status |-> "NameError", items |-> <<>>, total |-> 0] }
    ELSE { [status |-> "ok", items |-> Page(s, r.limit, r.offset),
            total |-> CountTotal(t, r)]
           : s \in Ordered(t, {i \in DOMAIN t : Where(t[i], r)}, r.sort) }

\* One listing per behaviour: the call changes no table, so a second is a first.
ListItems ==
    /\ resp.status = "none"
    /\ \E r \in Requests :
         /\ req' = r
         /\ resp' \in get_items_with_filters(items, r)
    /\ UNCHANGED <<categories, materials, tags, now, items, images, wishlist, pc, arg, tx, ret, likeCalls, nextId>>

InitQuery ==
    /\ items \in {Seeded(t) : t \in ItemTables}
    /\ images = <<>>
    /\ wishlist = <<>>
    /\ req = [category |-> {}, material |-> {}, tags |-> {}, q |-> {},
              price_min |-> {}, price_max |-> {}, is_active |-> {},
              sort |-> "newest", limit |-> DefaultLimit, offset |-> 0]
    /\ resp = [status |-> "none", items |-> <<>>, total |-> 0]
    /\ NoProcState
    /\ likeCalls = [i \in ItemIds |-> 0]
    /\ nextId = 1
    /\ SeededCatalog

NextQuery == ListItems

SpecQuery == InitQuery /\ [][NextQuery]_vars

(* Claims about the listing.                                               *)

\* A text that is the text of a uuid.
WellFormedId(text) == \E n \in 1..9 : text = IdText(n)

\* The request has a material, or an entry of tags, that is no uuid.
Malformed(r) ==
    \/ \E v \in r.material : v /= <<>> /\ ~WellFormedId(v)
    \/ \E v \in TagIdList(r.tags) : ~WellFormedId(v)

\* C29: a listing whose material or one of whose tags entries is not a
\* well-formed id fails with an invalid-argument error.
C29_MalformedFilterIsInvalidArgument ==
    (resp.status /= "none" /\ Malformed(req)) => resp.status = "InvalidArgument"

\* What the interface promises of a filter, stated on a row.
InPriceRange(row, r) ==
    /\ r.price_min /= {} => \E v \in r.price_min : v <= row.price
    /\ r.price_max /= {} => \E v \in r.price_max : row.price <= v

HasRequestedFlag(row, r) ==
    r.is_active /= {} => row.is_active \in r.is_active

Returned == {resp.items[k] : k \in DOMAIN resp.items}

\* The tags a request names: those whose uuid text occurs in its tags.
NamedTags(r) == {t \in TagIds : \E v \in r.tags : Contains(v, IdText(t))}

\* C1: the total of a listing is the number of items that satisfy all the
\* supplied filters, whatever limit and offset are.
C1_TotalCountsMatchingItems ==
    resp.status = "ok" =>
        resp.total = Cardinality({i \in DOMAIN items :
                        InPriceRange(items[i], req) /\ HasRequestedFlag(items[i], req)})

Completed == resp.status /= "none"

\* The whole result fits the page.
WholePage == req.offset = 0 /\ req.limit >= Cardinality(DOMAIN items)

MeetsPlainFilters(i) ==
    InPriceRange(items[i], req) /\ HasRequestedFlag(items[i], req)

\* C14: a listing that names tags returns exactly the items that hold at
\* least one of the named tags (and meet the other filters), each of them
\* once.
C14_TagsSelectItemsHoldingAny ==
    (/\ Completed /\ WholePage
     /\ NamedTags(req) /= {}
     /\ req.category = {} /\ req.material = {} /\ req.q = {})
    => /\ resp.status = "ok"
       /\ Returned = {i \in DOMAIN items :
                        items[i].tags \cap NamedTags(req) /= {} /\ MeetsPlainFilters(i)}
       /\ Len(resp.items) = Cardinality(Returned)

\* C15: a listing that names a category, by its uuid or by its slug,
\* completes and returns exactly the items of that category (that meet the
\* other filters); an item without a category is not among them.
C15_CategoryByIdOrSlug ==
    (/\ Completed /\ WholePage
     /\ req.category /= {}
     /\ req.material = {} /\ req.tags = {} /\ req.q = {})
    => /\ resp.status = "ok"
       /\ Returned = {i \in DOMAIN items :
                        /\ \E c \in items[i].category_id \cap DOMAIN categories :
                             \E v \in req.category :
                                 v = IdText(c) \/ v = categories[c].slug
                        /\ MeetsPlainFilters(i)}

\* C16: a listing with a search text completes, and returns an item only
\* if the text occurs, letter case aside, in the item's name or in its
\* description.
C16_SearchMatchesNameOrDescription ==
    (/\ Completed
     /\ req.q \notin {{}, {<<>>}}
     /\ req.category = {} /\ req.material = {} /\ req.tags = {})
    => /\ resp.status = "ok"
       /\ \A i \in Returned : \E v \in req.q :
             \/ Contains(Lower(items[i].name), Lower(v))
             \/ \E d \in items[i].description : Contains(Lower(d), Lower(v))

\* C17: the returned items are in non-decreasing price order for price-low,
\* non-increasing price order for price-high and non-increasing likes order
\* for most-loved, whatever the table and the filters.
C17_SortedByRequestedKey ==
    resp.status = "ok" =>
        \A k, l \in DOMAIN resp.items :
            k < l =>
                LET a == items[resp.items[k]]
                    b == items[resp.items[l]]
                IN /\ req.sort = "price-low" => a.price <= b.price
                   /\ req.sort = "price-high" => a.price >= b.price
                   /\ req.sort = "most-loved" => a.likes >= b.likes

\* A price-low listing of the active items has returned two of them, the
\* cheaper first, while an inactive item cheaper than both stayed out.
C17_Witness ==
    /\ resp.status = "ok"
    /\ req.sort = "price-low"
    /\ req.is_active = {TRUE}
    /\ Len(resp.items) = 2
    /\ items[resp.items[1]].price < items[resp.items[2]].price
    /\ \E j \in DOMAIN items \ Returned :
         ~items[j].is_active /\ items[j].price <= items[resp.items[1]].price

NoFilter ==
    /\ req.category = {} /\ req.material = {} /\ req.tags = {} /\ req.q = {}
    /\ req.price_min = {} /\ req.price_max = {} /\ req.is_active = {}

\* Items created after item i, and items created no earlier than it.
Newer(i) == {j \in DOMAIN items : items[j].created_at > items[i].created_at}

NotOlder(i) == {j \in DOMAIN items : items[j].created_at >= items[i].created_at}

\* C18: without filters, and with sort newest or any value that is not one
\* of the three other keys, the listing is the slice offset .. offset +
\* limit - 1 of the whole table in created_at-descending order: it has
\* min(limit, rows left after offset) items, each once, sorted newest
\* first, and the item at place k of the page is at place offset + k of the
\* table's order.
C18_NewestFirstPage ==
    (/\ resp.status = "ok"
     /\ NoFilter
     /\ req.sort \notin {"price-low", "price-high", "most-loved"})
    => LET n == Cardinality(DOMAIN items)
           left == IF n > req.offset THEN n - req.offset ELSE 0
       IN /\ Len(resp.items) = Min(req.limit, left)
          /\ Cardinality(Returned) = Len(resp.items)
          /\ Returned \subseteq DOMAIN items
          /\ \A k, l \in DOMAIN resp.items :
               k < l => items[resp.items[k]].created_at >= items[resp.items[l]].created_at
          /\ \A k \in DOMAIN resp.items :
               /\ Cardinality(Newer(resp.items[k])) <= req.offset + k - 1
               /\ Cardinality(NotOlder(resp.items[k])) >= req.offset + k

\* A listing with a sort the builder does not know has returned, as its
\* page of one item after the first, an item older than the newest of three.
C18_Witness ==
    /\ resp.status = "ok"
    /\ NoFilter
    /\ req.sort = "oldest"
    /\ req.offset = 1 /\ req.limit = 1
    /\ Cardinality(DOMAIN items) = 3
    /\ Len(resp.items) = 1
    /\ Newer(resp.items[1]) /= {}

(* Paging through a listing: one call of get_items_with_filters per page,  *)
(* at the offsets 0, limit, 2 * limit, ... over one state of the tables.   *)

\* The listings a client pages through: no named filter, a limit smaller
\* than the table, from offset 0.
PageRequests ==
    {r \in PlainRequests : r.offset = 0 /\ r.limit < DefaultLimit /\ r.price_max = {}}

\* The call for the first page.
FirstPage ==
    /\ resp.status = "none"
    /\ \E r \in PageRequests : \E result \in get_items_with_filters(items, r) :
         /\ req' = r
         /\ resp' = [status |-> result.status, pages |-> <<result.items>>]
    /\ UNCHANGED <<categories, materials, tags, now, items, images, wishlist, pc, arg, tx, ret, likeCalls, nextId>>

\* The call for the page after a full one: the same arguments, the offset
\* moved on by limit.  Each call is a query of its own (lines 187-190).
NextPage ==
    /\ resp.status = "ok"
    /\ Len(resp.pages[Len(resp.pages)]) = req.limit
    /\ LET r == [req EXCEPT !.offset = @ + req.limit] IN
       \E result \in get_items_with_filters(items, r) :
         /\ req' = r
         /\ resp' = [status |-> result.status, pages |-> Append(resp.pages, result.items)]
    /\ UNCHANGED <<categories, materials, tags, now, items, images, wishlist, pc, arg, tx, ret, likeCalls, nextId>>

InitPages ==
    /\ items \in {Seeded(t) : t \in ItemTables}
    /\ images = <<>>
    /\ wishlist = <<>>
    /\ req = [category |-> {}, material |-> {}, tags |-> {}, q |-> {},
              price_min |-> {}, price_max |-> {}, is_active |-> {},
              sort |-> "newest", limit |-> DefaultLimit, offset |-> 0]
    /\ resp = [status |-> "none", pages |-> <<>>]
    /\ NoProcState
    /\ likeCalls = [i \in ItemIds |-> 0]
    /\ nextId = 1
    /\ SeededCatalog

NextPages == FirstPage \/ NextPage

SpecPages == InitPages /\ [][NextPages]_vars

\* The last page came back short: there is nothing after it.
PagedThrough ==
    /\ resp.status = "ok"
    /\ Len(resp.pages[Len(resp.pages)]) < req.limit

\* The items on page k.
OnPage(k) == {resp.pages[k][n] : n \in DOMAIN resp.pages[k]}

\* C30: the pages of a listing at the offsets 0, limit, 2 * limit, ... over
\* one state of the tables share no item, and together they hold every
\* item that meets the filters.
C30_PagesPartitionTheMatches ==
    PagedThrough =>
        /\ \A k, l \in DOMAIN resp.pages : k /= l => OnPage(k) \cap OnPage(l) = {}
        /\ UNION {OnPage(k) : k \in DOMAIN resp.pages}
             = {i \in DOMAIN items : MeetsPlainFilters(i)}

-----------------------------------------------------------------------------
(* Image helpers: create_item_image, set_primary_image, delete_item_image. *)

\* Image rows ever created in one behaviour: by one session, and by
\* concurrent sessions.
MaxImages == 3
MaxImagesConc == 2

ImageIds == 1..MaxImages

Primaries(imgs, item) ==
    {i \in DOMAIN imgs : imgs[i].item_id = item /\ imgs[i].is_primary}

Returns(p, kind, id) == ret' = [ret EXCEPT ![p] = [kind |-> kind, id |-> id]]

ImageCall(op, item, image, primary) ==
    [op |-> op, item_id |-> item, image_id |-> image, is_primary |-> primary,
     pre |-> Primaries(images, item)]

\* create_item_image up to its commit (lines 243-255): the row is inserted
\* and committed with the flag the caller gave; with is_primary the handler
\* goes on to call set_primary_image (line 259).
create_item_image(p, bound) ==
    /\ pc[p] = "idle"
    /\ nextId <= bound
    /\ \E item \in ItemIds, primary \in BOOLEAN :
         /\ arg' = [arg EXCEPT ![p] = ImageCall("create_item_image", item, nextId, primary)]
         /\ IF item \notin DOMAIN items
            THEN /\ Returns(p, "ValueError", {})
                 /\ UNCHANGED <<images, nextId, pc>>
            ELSE /\ images' = images @@ (nextId :> [item_id |-> item, is_primary |-> primary])
                 /\ nextId' = nextId + 1
                 /\ IF primary
                    THEN /\ pc' = [pc EXCEPT ![p] = "ci_set_primary"]
                         /\ UNCHANGED ret
                    ELSE /\ Returns(p, "image", {nextId})
                         /\ UNCHANGED pc
    /\ UNCHANGED <<categories, materials, tags, now, items, wishlist, req, resp, tx, likeCalls>>

ClearTargetsNone(imgs, item) == {}

\* The rows of UPDATE item_images ... WHERE item_id = :item (lines 273-274).
ClearTargets(imgs, item) == {i \in DOMAIN imgs : imgs[i].item_id = item}

\* The rows of UPDATE ... WHERE id = :image AND item_id = :item (line 282).
SetTargets(imgs, image, item) ==
    {i \in DOMAIN imgs : i = image /\ imgs[i].item_id = item}

\* First statement of set_primary_image (lines 272-277), for the call the
\* process makes now or the one create_item_image makes at line 259.
set_primary_image_clear(p) ==
    /\ \/ /\ pc[p] = "idle"
          /\ \E image \in ImageIds, item \in ItemIds :
               arg' = [arg EXCEPT ![p] = ImageCall("set_primary_image", item, image, TRUE)]
       \/ /\ pc[p] = "ci_set_primary"
          /\ UNCHANGED arg
    /\ LET T == ClearTargets(images, arg'[p].item_id) IN
         /\ \A i \in T : ~LockedByOther(p, Key("item_images", i))
         /\ tx' = [tx EXCEPT ![p] =
                     [k \in {Key("item_images", i) : i \in T} |->
                         [images[k[2]] EXCEPT !.is_primary = FALSE]]]
    /\ pc' = [pc EXCEPT ![p] = "sp_clear"]
    /\ UNCHANGED <<categories, materials, tags, now, items, images, wishlist, req, resp, ret, likeCalls, nextId>>

\* Second statement (lines 280-285).
set_primary_image_set(p) ==
    /\ pc[p] = "sp_clear"
    /\ LET T == SetTargets(images, arg[p].image_id, arg[p].item_id) IN
         /\ \A i \in T : ~LockedByOther(p, Key("item_images", i))
         /\ tx' = [tx EXCEPT ![p] =
                     [k \in {Key("item_images", i) : i \in T} |->
                         [images[k[2]] EXCEPT !.is_primary = TRUE]] @@ tx[p]]
    /\ pc' = [pc EXCEPT ![p] = "sp_set"]
    /\ UNCHANGED <<categories, materials, tags, now, items, images, wishlist, req, resp, arg, ret, likeCalls, nextId>>

\* Commit and the select of the image (lines 287-291); create_item_image
\* then returns the image it inserted (line 261).
set_primary_image_commit(p) ==
    /\ pc[p] = "sp_set"
    /\ images' = Committed("item_images", images, tx[p])
    /\ tx' = [tx EXCEPT ![p] = <<>>]
    /\ pc' = [pc EXCEPT ![p] = "idle"]
    /\ IF arg[p].op = "create_item_image" \/ arg[p].image_id \in DOMAIN images
       THEN Returns(p, "image", {arg[p].image_id})
       ELSE Returns(p, "None", {})
    /\ UNCHANGED <<categories, materials, tags, now, items, wishlist, req, resp, arg, likeCalls, nextId>>

\* delete_item_image (lines 302-310): False when there is no such image.
delete_item_image(p) ==
    /\ pc[p] = "idle"
    /\ \E image \in ImageIds :
         /\ arg' = [arg EXCEPT ![p] = ImageCall("delete_item_image", 0, image, FALSE)]
         /\ IF image \in DOMAIN images
            THEN /\ ~LockedByOther(p, Key("item_images", image))
                 /\ images' = Without(images, {image})
                 /\ Returns(p, "True", {})
            ELSE /\ UNCHANGED images
                 /\ Returns(p, "False", {})
    /\ UNCHANGED <<categories, materials, tags, now, items, wishlist, req, resp, pc, tx, likeCalls, nextId>>

InitImages ==
    /\ items = StoredItems
    /\ images = <<>>
    /\ wishlist = <<>>
    /\ NoRequest
    /\ NoProcState
    /\ likeCalls = [i \in ItemIds |-> 0]
    /\ nextId = 1
    /\ SeededCatalog

\* One session at a time.
NextImagesSeq ==
    \/ create_item_image(1, MaxImages)
    \/ set_primary_image_clear(1)
    \/ set_primary_image_set(1)
    \/ set_primary_image_commit(1)
    \/ delete_item_image(1)

SpecImagesSeq == InitImages /\ [][NextImagesSeq]_vars

\* Concurrent sessions that create images and choose primary images.
NextImages ==
    \E p \in Procs :
        \/ create_item_image(p, MaxImagesConc)
        \/ set_primary_image_clear(p)
        \/ set_primary_image_set(p)
        \/ set_primary_image_commit(p)

SpecImages == InitImages /\ [][NextImages]_vars

\* The commit of create_item_image (line 254) fails: the call raises with
\* nothing stored.
create_item_image_fail(p) ==
    /\ pc[p] = "idle"
    /\ \E item \in DOMAIN items, primary \in BOOLEAN :
         arg' = [arg EXCEPT ![p] = ImageCall("create_item_image", item, nextId, primary)]
    /\ Returns(p, "OperationalError", {})
    /\ UNCHANGED <<categories, materials, tags, now, items, images, wishlist, req, resp, pc, tx,
                   likeCalls, nextId>>

\* A statement or the commit of set_primary_image raises SQLAlchemyError
\* (lines 292-294): the transaction is rolled back and the error re-raised,
\* through create_item_image when the call was its line 259.
set_primary_image_fail(p) ==
    /\ pc[p] \in {"ci_set_primary", "sp_clear", "sp_set"}
    /\ tx' = [tx EXCEPT ![p] = <<>>]
    /\ pc' = [pc EXCEPT ![p] = "idle"]
    /\ Returns(p, "OperationalError", {})
    /\ UNCHANGED <<categories, materials, tags, now, items, images, wishlist, req, resp, arg,
                   likeCalls, nextId>>

\* One session at a time, on a database that may fail a call.
NextImagesFail ==
    \/ create_item_image(1, MaxImages)
    \/ create_item_image_fail(1)
    \/ set_primary_image_clear(1)
    \/ set_primary_image_set(1)
    \/ set_primary_image_commit(1)
    \/ set_primary_image_fail(1)
    \/ delete_item_image(1)

SpecImagesFail == InitImages /\ [][NextImagesFail]_vars

(* Claims about the image helpers.                                         *)

\* C3: in every committed state no item has more than one primary image,
\* the state create_item_image commits before it calls set_primary_image
\* included.
C3_AtMostOnePrimaryPerItem ==
    \A item \in ItemIds : Cardinality(Primaries(images, item)) <= 1

BelongsTo(imgs, image, item) == image \in DOMAIN imgs /\ imgs[image].item_id = item

\* C4: when set_primary_image returns for an image of the item, that image
\* is the item's only primary image (exactly one, after every call), and no
\* image of another item has changed.
C4_SetPrimaryLeavesExactlyThatImage ==
    [][\A p \in Procs :
         (/\ pc[p] = "sp_set" /\ pc'[p] = "idle"
          /\ BelongsTo(images, arg[p].image_id, arg[p].item_id))
         => /\ Primaries(images', arg[p].item_id) = {arg[p].image_id}
            /\ DOMAIN images' = DOMAIN images
            /\ \A i \in DOMAIN images :
                 images[i].item_id /= arg[p].item_id => images'[i] = images[i]]_vars

\* set_primary_image has returned for a second image of an item whose
\* primary image was another one, while another item keeps its own.
C4_Witness ==
    /\ pc[1] = "idle"
    /\ arg[1].op = "set_primary_image"
    /\ ret[1].id = {arg[1].image_id}
    /\ \E a \in arg[1].pre :
         /\ a /= arg[1].image_id
         /\ BelongsTo(images, a, arg[1].item_id)
         /\ ~images[a].is_primary
    /\ Primaries(images, arg[1].item_id) = {arg[1].image_id}
    /\ \E other \in ItemIds \ {arg[1].item_id} : Primaries(images, other) /= {}

\* C5: set_primary_image for an image that does not exist, or that belongs
\* to another item, fails with NotFound and changes no is_primary flag.
\* (The service has no exception of that name: returning None, its answer
\* for a missing row, is counted as the failure.)
C5_SetPrimaryOfForeignImageFails ==
    \A p \in Procs :
        (/\ pc[p] = "idle"
         /\ arg[p].op = "set_primary_image"
         /\ ~BelongsTo(images, arg[p].image_id, arg[p].item_id))
        => /\ ret[p].kind \in {"NotFound", "None"}
           /\ Primaries(images, arg[p].item_id) = arg[p].pre

\* C6: while calls that choose a primary image run side by side, the
\* committed rows never show two primary images of one item, and never none
\* for an item that had one when a running call began.
C6_ReadersSeeOnePrimary ==
    /\ \A item \in ItemIds :
         \A a, b \in Primaries(images, item) : a = b
    /\ \A p \in Procs :
         (pc[p] \in {"ci_set_primary", "sp_clear", "sp_set"} /\ arg[p].pre /= {})
         => Primaries(images, arg[p].item_id) /= {}

\* C13: create_item_image with is_primary = true is all-or-nothing: once it
\* has returned or raised, either the new image is stored and is the item's
\* only primary image, or there is no new image row and the item's primary
\* flags are as they were before the call.
C13_CreatePrimaryIsAllOrNothing ==
    \A p \in Procs :
        (/\ pc[p] = "idle"
         /\ arg[p].op = "create_item_image"
         /\ arg[p].is_primary
         /\ arg[p].item_id \in DOMAIN items)
        => \/ /\ ret[p].kind = "image"
              /\ BelongsTo(images, arg[p].image_id, arg[p].item_id)
              /\ Primaries(images, arg[p].item_id) = {arg[p].image_id}
           \/ /\ ret[p].kind /= "image"
              /\ arg[p].image_id \notin DOMAIN images
              /\ Primaries(images, arg[p].item_id) = arg[p].pre

-----------------------------------------------------------------------------
(* Likes: increment_item_likes.                                            *)

\* increment_item_likes calls in one behaviour.
MaxLikeCalls == 3

LikeCallsBegun ==
    LET Sum[S \in SUBSET ItemIds] ==
            IF S = {} THEN 0
            ELSE LET i == CHOOSE x \in S : TRUE IN likeCalls[i] + Sum[S \ {i}]
    IN Sum[ItemIds] + Cardinality({p \in Procs : pc[p] \in {"il_update", "il_commit"}})

LikeRowNeverLocked(p, item) == FALSE

\* The UPDATE waits while another transaction holds the item's row.
LikeRowLocked(p, item) == LockedByOther(p, Key("items", item))

LikeTargetsOrAll(t, item) == IF item \in DOMAIN t THEN {item} ELSE DOMAIN t

\* The rows of UPDATE items ... WHERE id = :item (line 326): none when no
\* item has the id.
LikeTargets(t, item) == {i \in DOMAIN t : i = item}

\* UPDATE items SET likes = likes + 1 WHERE id = :item (lines 324-329): the
\* database computes the new value from the row it has locked, and stamps
\* updated_at (onupdate=func.now()).
increment_item_likes_update(p) ==
    /\ pc[p] = "idle"
    /\ LikeCallsBegun < MaxLikeCalls
    /\ \E item \in ItemIds :
         LET T == LikeTargets(items, item) IN
         /\ arg' = [arg EXCEPT ![p] = [op |-> "increment_item_likes", item_id |-> item]]
         /\ \A i \in T : ~LikeRowLocked(p, i)
         /\ IF T /= {}
            THEN /\ tx' = [tx EXCEPT ![p] =
                             [k \in {Key("items", i) : i \in T} |->
                                 [items[k[2]] EXCEPT !.likes = @ + 1,
                                                     !.updated_at = now]]]
                 /\ now' = now + 1
            ELSE /\ tx' = [tx EXCEPT ![p] = <<>>]
                 /\ UNCHANGED now
    /\ pc' = [pc EXCEPT ![p] = "il_update"]
    /\ UNCHANGED <<categories, materials, tags, items, images, wishlist, req, resp, ret, likeCalls, nextId>>

\* db.commit() (line 330).
increment_item_likes_commit(p) ==
    /\ pc[p] = "il_update"
    /\ items' = Committed("items", items, tx[p])
    /\ tx' = [tx EXCEPT ![p] = <<>>]
    /\ pc' = [pc EXCEPT ![p] = "il_commit"]
    /\ UNCHANGED <<categories, materials, tags, now, images, wishlist, req, resp, arg, ret, likeCalls, nextId>>

\* The select of the item and the return (lines 331-332).
increment_item_likes_return(p) ==
    /\ pc[p] = "il_commit"
    /\ IF arg[p].item_id \in DOMAIN items
       THEN Returns(p, "item", {arg[p].item_id})
       ELSE Returns(p, "None", {})
    /\ likeCalls' = [likeCalls EXCEPT ![arg[p].item_id] = @ + 1]
    /\ pc' = [pc EXCEPT ![p] = "idle"]
    /\ UNCHANGED <<categories, materials, tags, now, items, images, wishlist, req, resp, arg, tx, nextId>>

InitLikes ==
    /\ items = StoredItems
    /\ images = <<>>
    /\ wishlist = <<>>
    /\ NoRequest
    /\ NoProcState
    /\ likeCalls = [i \in ItemIds |-> 0]
    /\ nextId = 1
    /\ SeededCatalog

NextLikes ==
    \E p \in Procs :
        \/ increment_item_likes_update(p)
        \/ increment_item_likes_commit(p)
        \/ increment_item_likes_return(p)

SpecLikes == InitLikes /\ [][NextLikes]_vars

(* Claims about the likes.                                                 *)

\* C7: once the increment_item_likes calls on an item have returned, in
\* whatever order their statements ran, its likes are its likes before the
\* calls plus the number of calls; and each such call returned the item.
C7_NoLostLike ==
    /\ (\A p \in Procs : pc[p] = "idle")
        => \A i \in DOMAIN items : items[i].likes = StoredItems[i].likes + likeCalls[i]
    /\ \A p \in Procs :
         (pc[p] = "idle" /\ arg[p].op = "increment_item_likes"
             /\ arg[p].item_id \in DOMAIN items)
         => ret[p] = [kind |-> "item", id |-> {arg[p].item_id}]

\* Two sessions had their increments of one item in flight together, and
\* all calls have returned.
C7_Witness ==
    /\ \A p \in Procs : pc[p] = "idle" /\ arg[p].op = "increment_item_likes"
    /\ arg[1].item_id = arg[2].item_id
    /\ \E i \in DOMAIN items :
         /\ arg[1].item_id = i
         /\ likeCalls[i] = MaxLikeCalls
         /\ items[i].likes = StoredItems[i].likes + MaxLikeCalls

-----------------------------------------------------------------------------
(* Wishlist: add_to_wishlist.                                              *)

UserIds == {1, 2}

AllEntries(wl, user) == DOMAIN wl

\* The rows of ... WHERE user_id = :user (lines 345, 394).
UserEntries(wl, user) == {e \in DOMAIN wl : wl[e].user_id = user}

ExistingEntriesUnchecked(wl, user, item) == {}

EntriesOfItem(wl, user, item) == {e \in DOMAIN wl : wl[e].item_id = item}

\* select(Wishlist).where(user_id == :user, item_id == :item) (line 356).
ExistingEntries(wl, user, item) ==
    {e \in DOMAIN wl : wl[e].user_id = user /\ wl[e].item_id = item}

\* The existence check (lines 356-359) and, when there is no entry, the
\* staging of a new one (lines 361-362).
add_to_wishlist_check(p) ==
    /\ pc[p] = "idle"
    /\ \E user \in UserIds, item \in ItemIds :
         LET existing == ExistingEntries(wishlist, user, item) IN
         /\ arg' = [arg EXCEPT ![p] = [op |-> "add_to_wishlist", user_id |-> user,
                                       item_id |-> item, pre |-> existing]]
         /\ IF existing /= {}
            THEN /\ Returns(p, "entry", existing)
                 /\ UNCHANGED pc
            ELSE /\ pc' = [pc EXCEPT ![p] = "wl_add"]
                 /\ UNCHANGED ret
    /\ UNCHANGED <<categories, materials, tags, now, items, images, wishlist, req, resp, tx, likeCalls, nextId>>

\* db.commit() (lines 363-369): the INSERT is rejected when the item is gone
\* (foreign key) or the pair is stored already (uq_user_item_wishlist); the
\* handler rolls back and re-raises.  The row stored gets the time of the
\* insert (created_at: server_default=func.now()).
add_to_wishlist_commit(p) ==
    /\ pc[p] = "wl_add"
    /\ IF \/ arg[p].item_id \notin DOMAIN items
          \/ \E e \in DOMAIN wishlist :
               wishlist[e].user_id = arg[p].user_id /\ wishlist[e].item_id = arg[p].item_id
       THEN /\ Returns(p, "IntegrityError", {})
            /\ UNCHANGED <<wishlist, nextId, now>>
       ELSE /\ wishlist' = wishlist @@
                    (nextId :> [user_id |-> arg[p].user_id, item_id |-> arg[p].item_id,
                                created_at |-> now])
            /\ nextId' = nextId + 1
            /\ now' = now + 1
            /\ Returns(p, "entry", {nextId})
    /\ pc' = [pc EXCEPT ![p] = "idle"]
    /\ UNCHANGED <<categories, materials, tags, items, images, req, resp, arg, tx, likeCalls>>

InitWishlist ==
    /\ items = StoredItems
    /\ images = <<>>
    /\ wishlist = <<>>
    /\ NoRequest
    /\ NoProcState
    /\ likeCalls = [i \in ItemIds |-> 0]
    /\ nextId = 1
    /\ SeededCatalog

\* One session at a time.
NextWishlistSeq ==
    \/ add_to_wishlist_check(1)
    \/ add_to_wishlist_commit(1)

SpecWishlistSeq == InitWishlist /\ [][NextWishlistSeq]_vars

\* Concurrent sessions.
NextWishlist ==
    \E p \in Procs :
        \/ add_to_wishlist_check(p)
        \/ add_to_wishlist_commit(p)

SpecWishlist == InitWishlist /\ [][NextWishlist]_vars

(* Claims about the wishlist.                                              *)

EntriesOf(wl, user, item) ==
    {e \in DOMAIN wl : wl[e].user_id = user /\ wl[e].item_id = item}

\* C8: add_to_wishlist for a pair that has an entry returns that entry,
\* raises nothing and leaves the wishlist as it is; after any number of adds
\* of a pair, one after the other, the pair has exactly one entry.
C8_AddToWishlistIsIdempotent ==
    [][\A p \in Procs :
         arg'[p].op = "add_to_wishlist"
         => LET had == EntriesOf(wishlist, arg'[p].user_id, arg'[p].item_id) IN
            /\ (pc[p] = "idle" /\ had /= {}) =>
                 /\ pc'[p] = "idle"
                 /\ ret'[p] = [kind |-> "entry", id |-> had]
                 /\ wishlist' = wishlist
            /\ (pc'[p] = "idle" /\ arg'[p].item_id \in DOMAIN items) =>
                 /\ ret'[p].kind = "entry"
                 /\ EntriesOf(wishlist', arg'[p].user_id, arg'[p].item_id) = ret'[p].id
                 /\ Cardinality(ret'[p].id) = 1]_vars

\* An add of a pair that was stored already has returned the stored entry.
C8_Witness ==
    /\ pc[1] = "idle"
    /\ arg[1].op = "add_to_wishlist"
    /\ arg[1].pre /= {}
    /\ ret[1] = [kind |-> "entry", id |-> arg[1].pre]
    /\ Cardinality(EntriesOf(wishlist, arg[1].user_id, arg[1].item_id)) = 1
    /\ Cardinality(DOMAIN wishlist) > 1

\* C9: the wishlist never holds two entries of one pair, and no add of an
\* item that exists fails, also when two adds of one pair interleave between
\* the existence check and the insert.
C9_ConcurrentAddsNeitherDuplicateNorFail ==
    /\ \A user \in UserIds, item \in ItemIds :
         Cardinality(EntriesOf(wishlist, user, item)) <= 1
    /\ \A p \in Procs :
         (pc[p] = "idle" /\ arg[p].op = "add_to_wishlist"
             /\ arg[p].item_id \in DOMAIN items)
         => ret[p].kind = "entry"

\* C22: add_to_wishlist for an id no item has fails with NotFound, and
\* the pair has no entry afterwards.
C22_AddForMissingItemIsNotFound ==
    \A p \in Procs :
        (/\ pc[p] = "idle"
         /\ arg[p].op = "add_to_wishlist"
         /\ arg[p].item_id \notin DOMAIN items)
        => /\ ret[p].kind \in {"NotFound", "None"}
           /\ ExistingEntries(wishlist, arg[p].user_id, arg[p].item_id) = {}

-----------------------------------------------------------------------------
(* Bulk helpers on Item: bulk_update_entities, bulk_delete_entities.       *)

SkuValues == {1, 2, 3}

\* The clock stops at MaxTime: no bulk update is issued after it.
MaxTime == 3

\* patch: a dict over the columns of the table, each key given or not; the
\* empty dict is a patch (BulkUpdateRequest.patch is any dict).  These are
\* the patches over the keys sku and is_active.
Patches ==
    [sku : {{}} \cup {{v} : v \in SkuValues}, is_active : OptBool,
     price : {{}}, stock_quantity : {{}}, likes : {{}}]

\* The empty dict, and the patch of a request that has none.
NoPatch ==
    [sku |-> {}, is_active |-> {}, price |-> {}, stock_quantity |-> {}, likes |-> {}]

\* The value of a key of the patch, or the stored one when the key is absent.
Given(opt, stored) == IF opt = {} THEN stored ELSE CHOOSE v \in opt : TRUE

Unpatched(row, pt) == row

\* The values of the patch, set on a row (.values(**patch), line 64).
Patched(row, pt) ==
    [row EXCEPT !.sku = Given(pt.sku, @),
                !.is_active = Given(pt.is_active, @),
                !.price = Given(pt.price, @),
                !.stock_quantity = Given(pt.stock_quantity, @),
                !.likes = Given(pt.likes, @)]

\* A row after SET <patch>, updated_at = now(): the UPDATE sets the keys of
\* the patch and, having no value for it, the onupdate of updated_at.
Updated(row, pt) == [Patched(row, pt) EXCEPT !.updated_at = now]

\* The unique index on items.sku.
SkuUnique(t) == \A i, j \in DOMAIN t : t[i].sku = t[j].sku => i = j

\* UPDATE items SET ... WHERE id IN :ids (lines 61-67), one row after the
\* other: the statement stops at the first row the unique index refuses.
RECURSIVE UpdateRows(_, _, _)
UpdateRows(t, todo, pt) ==
    IF todo = {} THEN [ok |-> TRUE, tbl |-> t]
    ELSE LET i == CHOOSE x \in todo : \A y \in todo : x <= y
             u == [t EXCEPT ![i] = Updated(t[i], pt)]
         IN IF SkuUnique(u) THEN UpdateRows(u, todo \ {i}, pt)
            ELSE [ok |-> FALSE, tbl |-> t]

KeptWithoutRollback(before, r) == r.tbl

\* The table after the statement: committed as a whole (line 68), or as it
\* was when the statement failed (the rollback of line 72).
AfterStatement(before, r) == IF r.ok THEN r.tbl ELSE before

\* bulk_update_entities(db, Item, ids, patch) for a patch of `patches`:
\* nothing is done for no ids (lines 57-58); otherwise the statement runs
\* whatever the patch holds.
BulkUpdate(patches) ==
    /\ now <= MaxTime
    /\ \E ids \in SUBSET ItemIds, pt \in patches, db_fails \in BOOLEAN :
         LET r == UpdateRows(items, ids \cap DOMAIN items, pt) IN
         /\ req' = [op |-> "bulk_update", ids |-> ids, patch |-> pt, db_fails |-> db_fails]
         /\ IF ids = {}
            THEN /\ resp' = [status |-> "ok", count |-> 0]
                 /\ UNCHANGED <<items, now>>
            ELSE IF db_fails
            THEN /\ resp' = [status |-> "OperationalError", count |-> 0]
                 /\ items' = AfterStatement(items, [ok |-> FALSE, tbl |-> r.tbl])
                 /\ UNCHANGED now
            ELSE /\ resp' = IF r.ok
                            THEN [status |-> "ok",
                                  count |-> Cardinality(ids \cap DOMAIN items)]
                            ELSE [status |-> "IntegrityError", count |-> 0]
                 /\ items' = AfterStatement(items, r)
                 /\ now' = IF r.ok THEN now + 1 ELSE now
    /\ UNCHANGED <<categories, materials, tags, images, wishlist, pc, arg, tx, ret, likeCalls, nextId>>

bulk_update_entities == BulkUpdate(Patches)

KeepOrphans(tbl, its) == tbl

\* ForeignKey("items.id", ondelete="CASCADE"): the rows of an item that is
\* deleted go with it.
WithoutOrphans(tbl, its) ==
    Without(tbl, {k \in DOMAIN tbl : tbl[k].item_id \notin DOMAIN its})

\* DELETE FROM items WHERE id IN :ids (lines 89-91); the rows of item_images
\* and wishlists that name a deleted item go with it (ondelete CASCADE).
bulk_delete_entities ==
    /\ \E ids \in SUBSET ItemIds, db_fails \in BOOLEAN :
         LET r == [ok |-> ~db_fails, tbl |-> Without(items, ids)] IN
         /\ req' = [op |-> "bulk_delete", ids |-> ids, patch |-> NoPatch,
                    db_fails |-> db_fails]
         /\ IF ids = {}
            THEN /\ resp' = [status |-> "ok", count |-> 0]
                 /\ UNCHANGED <<items, images, wishlist>>
            ELSE /\ resp' = IF r.ok
                            THEN [status |-> "ok",
                                  count |-> Cardinality(ids \cap DOMAIN items)]
                            ELSE [status |-> "OperationalError", count |-> 0]
                 /\ items' = AfterStatement(items, r)
                 /\ images' = WithoutOrphans(images, items')
                 /\ wishlist' = WithoutOrphans(wishlist, items')
    /\ UNCHANGED <<categories, materials, tags, now, pc, arg, tx, ret, likeCalls, nextId>>

InitBulk ==
    /\ items = [i \in ItemIds |-> ItemRow(i, 1, TRUE, SeedLikes(i))]
    /\ images = (1 :> [item_id |-> 1, is_primary |-> TRUE])
    /\ wishlist = (1 :> [user_id |-> 1, item_id |-> 2, created_at |-> 1])
    /\ req = [op |-> "none", ids |-> {}, patch |-> NoPatch,
              db_fails |-> FALSE]
    /\ resp = [status |-> "none", count |-> 0]
    /\ NoProcState
    /\ likeCalls = [i \in ItemIds |-> 0]
    /\ nextId = 1
    /\ SeededCatalog

NextBulk ==
    \/ bulk_update_entities
    \/ bulk_delete_entities

SpecBulk == InitBulk /\ [][NextBulk]_vars

(* Claims about the bulk helpers.                                          *)

\* The call the database rejects: it fails outright, or the patch would
\* leave two rows with one sku.
DatabaseRejects(t, r) ==
    /\ r.ids /= {}
    /\ \/ r.db_fails
       \/ /\ r.op = "bulk_update"
          /\ \E v \in r.patch.sku :
               \/ Cardinality(r.ids \cap DOMAIN t) > 1
               \/ \E i \in r.ids \cap DOMAIN t, j \in DOMAIN t \ r.ids : t[j].sku = v

\* C10: a bulk update or bulk delete that the database rejects changes no
\* row: the tables are as they were before the call, and the caller gets
\* the error.
C10_RejectedBulkCallChangesNothing ==
    [][DatabaseRejects(items, req')
         => /\ items' = items
            /\ images' = images
            /\ wishlist' = wishlist
            /\ resp'.status \in {"IntegrityError", "OperationalError"}]_vars

\* A bulk update of several rows to one sku has been refused with the rows,
\* the first of them included, as they were.
C10_Witness ==
    /\ req.op = "bulk_update"
    /\ ~req.db_fails
    /\ resp.status = "IntegrityError"
    /\ Cardinality(req.ids \cap DOMAIN items) > 1
    /\ \E v \in req.patch.sku : \A i \in DOMAIN items : items[i].sku /= v
    /\ \E b \in req.patch.is_active : \E i \in req.ids \cap DOMAIN items :
         items[i].is_active /= b

\* C11: a bulk update over N ids that all exist, which the database does not
\* reject, returns N, leaves every one of those rows with every key of the
\* patch at the patch's value and every other row as it was; a bulk delete
\* over N ids that all exist returns N, removes exactly those rows and
\* leaves the others as they were.
C11_BulkCallReachesExactlyItsIds ==
    [][(/\ req'.ids /= {}
        /\ req'.ids \subseteq DOMAIN items
        /\ ~DatabaseRejects(items, req'))
       => /\ resp' = [status |-> "ok", count |-> Cardinality(req'.ids)]
          /\ req'.op = "bulk_update" =>
               /\ DOMAIN items' = DOMAIN items
               /\ \A i \in req'.ids :
                    /\ \A v \in req'.patch.sku : items'[i].sku = v
                    /\ \A b \in req'.patch.is_active : items'[i].is_active = b
               /\ \A i \in DOMAIN items \ req'.ids : items'[i] = items[i]
          /\ req'.op = "bulk_delete" =>
               /\ DOMAIN items' = DOMAIN items \ req'.ids
               /\ \A i \in DOMAIN items' : items'[i] = items[i]]_vars

\* A bulk update has switched two items off and left a third, active one
\* untouched.
C11_Witness ==
    /\ req.op = "bulk_update"
    /\ resp = [status |-> "ok", count |-> 2]
    /\ req.patch = [NoPatch EXCEPT !.is_active = {FALSE}]
    /\ req.ids \subseteq DOMAIN items
    /\ \A i \in req.ids : ~items[i].is_active
    /\ \E j \in DOMAIN items \ req.ids :
         items[j].is_active /\ items[j].updated_at = items[j].created_at

\* C12: a bulk update with no ids, or with ids and an empty patch, and a
\* bulk delete with no ids, return 0 and write nothing (calls the database
\* fails on aside).
C12_EmptyBulkCallIsNoOp ==
    [][(/\ ~req'.db_fails
        /\ \/ req'.ids = {}
           \/ req'.op = "bulk_update" /\ req'.patch = NoPatch)
       => /\ resp' = [status |-> "ok", count |-> 0]
          /\ items' = items
          /\ images' = images
          /\ wishlist' = wishlist]_vars

-----------------------------------------------------------------------------
(* Deleting categories and materials: the endpoints delete_category,       *)
(* delete_material, bulk_delete_categories and bulk_delete_materials of    *)
(* routers/shop.py.                                                        *)

\* await db.delete(parent); await db.commit(): the session cascades the
\* delete along Category.items / Material.items (cascade="all,
\* delete-orphan"), and from each item along Item.images and
\* Item.wishlist_entries: the parent's items are deleted with their rows.
OrmDelete(gone) ==
    /\ items' = Without(items, gone)
    /\ images' = WithoutOrphans(images, items')
    /\ wishlist' = WithoutOrphans(wishlist, items')

\* DELETE /categories/{category_id} (lines 122-134).
delete_category ==
    /\ \E c \in CategoryIds :
         /\ req' = [op |-> "delete_category", ids |-> {c}, patch |-> NoPatch,
                    db_fails |-> FALSE]
         /\ IF c \notin DOMAIN categories
            THEN /\ resp' = [status |-> "404", count |-> 0]
                 /\ UNCHANGED <<items, images, wishlist, categories>>
            ELSE /\ OrmDelete({i \in DOMAIN items : c \in items[i].category_id})
                 /\ categories' = Without(categories, {c})
                 /\ resp' = [status |-> "204", count |-> 1]
    /\ UNCHANGED <<materials, tags, now, pc, arg, tx, ret, likeCalls, nextId>>

\* DELETE /materials/{material_id} (lines 233-245).
delete_material ==
    /\ \E m \in MaterialIds :
         /\ req' = [op |-> "delete_material", ids |-> {m}, patch |-> NoPatch,
                    db_fails |-> FALSE]
         /\ IF m \notin DOMAIN materials
            THEN /\ resp' = [status |-> "404", count |-> 0]
                 /\ UNCHANGED <<items, images, wishlist, materials>>
            ELSE /\ OrmDelete({i \in DOMAIN items : m \in items[i].material_id})
                 /\ materials' = Without(materials, {m})
                 /\ resp' = [status |-> "204", count |-> 1]
    /\ UNCHANGED <<categories, tags, now, pc, arg, tx, ret, likeCalls, nextId>>

\* ForeignKey(..., ondelete="SET NULL"): the column of the rows that named
\* a deleted parent is cleared by the database.
SetNull(t, column, ids) ==
    [i \in DOMAIN t |-> [t[i] EXCEPT ![column] = @ \ ids]]

\* DELETE /categories (lines 137-145): bulk_delete_entities(db, Category,
\* ids), one DELETE statement; the request schema wants at least one id.
bulk_delete_categories ==
    /\ \E ids \in (SUBSET CategoryIds) \ {{}}, db_fails \in BOOLEAN :
         /\ req' = [op |-> "bulk_delete_categories", ids |-> ids, patch |-> NoPatch,
                    db_fails |-> db_fails]
         /\ IF db_fails
            THEN /\ resp' = [status |-> "OperationalError", count |-> 0]
                 /\ UNCHANGED <<items, categories>>
            ELSE /\ resp' = [status |-> "ok",
                             count |-> Cardinality(ids \cap DOMAIN categories)]
                 /\ categories' = Without(categories, ids)
                 /\ items' = SetNull(items, "category_id", ids)
    /\ UNCHANGED <<materials, tags, images, wishlist, now, pc, arg, tx, ret, likeCalls, nextId>>

\* DELETE /materials (lines 248-256): bulk_delete_entities(db, Material, ids).
bulk_delete_materials ==
    /\ \E ids \in (SUBSET MaterialIds) \ {{}}, db_fails \in BOOLEAN :
         /\ req' = [op |-> "bulk_delete_materials", ids |-> ids, patch |-> NoPatch,
                    db_fails |-> db_fails]
         /\ IF db_fails
            THEN /\ resp' = [status |-> "OperationalError", count |-> 0]
                 /\ UNCHANGED <<items, materials>>
            ELSE /\ resp' = [status |-> "ok",
                             count |-> Cardinality(ids \cap DOMAIN materials)]
                 /\ materials' = Without(materials, ids)
                 /\ items' = SetNull(items, "material_id", ids)
    /\ UNCHANGED <<categories, tags, images, wishlist, now, pc, arg, tx, ret, likeCalls, nextId>>

\* The seeded store: three items, an image of item 1, a wishlist entry for
\* item 2; ids up to 1 are taken.
InitStore ==
    /\ items = [i \in ItemIds |-> ItemRow(i, 1, TRUE, SeedLikes(i))]
    /\ images = (1 :> [item_id |-> 1, is_primary |-> TRUE])
    /\ wishlist = (1 :> [user_id |-> 1, item_id |-> 2, created_at |-> 1])
    /\ req = [op |-> "none", ids |-> {}, patch |-> NoPatch, db_fails |-> FALSE]
    /\ resp = [status |-> "none", count |-> 0]
    /\ NoProcState
    /\ likeCalls = [i \in ItemIds |-> 0]
    /\ nextId = 2
    /\ SeededCatalog

NextCatalog ==
    \/ delete_category
    \/ delete_material
    \/ bulk_delete_categories
    \/ bulk_delete_materials

SpecCatalog == InitStore /\ [][NextCatalog]_vars

(* Claims about deleting categories and materials.                         *)

\* C19: a step that deletes categories or materials, through the single
\* delete endpoint or the bulk one, deletes no item: every item is still
\* stored, its category_id and material_id cleared where they named a
\* deleted row and otherwise as they were.
C19_DeletingCategoryKeepsItems ==
    [][(DOMAIN categories' /= DOMAIN categories \/ DOMAIN materials' /= DOMAIN materials)
       => /\ DOMAIN items' = DOMAIN items
          /\ \A i \in DOMAIN items :
               /\ items'[i].category_id = items[i].category_id \cap DOMAIN categories'
               /\ items'[i].material_id = items[i].material_id \cap DOMAIN materials']_vars

-----------------------------------------------------------------------------
(* The store as a whole: items are deleted while images and wishlist       *)
(* entries come and go.                                                    *)

\* The last row id the store hands out: inserts stop after it.
MaxRows == 2

\* remove_from_wishlist (lines 376-383): False when the pair has no entry.
remove_from_wishlist(p) ==
    /\ pc[p] = "idle"
    /\ \E user \in UserIds, item \in ItemIds :
         LET entry == ExistingEntries(wishlist, user, item) IN
         /\ arg' = [arg EXCEPT ![p] = [op |-> "remove_from_wishlist", user_id |-> user,
                                       item_id |-> item, pre |-> entry]]
         /\ IF entry = {}
            THEN /\ Returns(p, "False", {})
                 /\ UNCHANGED wishlist
            ELSE /\ wishlist' = Without(wishlist, entry)
                 /\ Returns(p, "True", {})
    /\ UNCHANGED <<categories, materials, tags, now, items, images, req, resp, pc, tx, likeCalls,
                   nextId>>

\* clear_user_wishlist (lines 394-397): one DELETE; the call returns its
\* rowcount (in the id field of ret).
clear_user_wishlist(p) ==
    /\ pc[p] = "idle"
    /\ \E user \in UserIds :
         LET entries == UserEntries(wishlist, user) IN
         /\ arg' = [arg EXCEPT ![p] = [op |-> "clear_user_wishlist", user_id |-> user,
                                       item_id |-> 0, pre |-> entries]]
         /\ wishlist' = Without(wishlist, entries)
         /\ Returns(p, "count", {Cardinality(entries)})
    /\ UNCHANGED <<categories, materials, tags, now, items, images, req, resp, pc, tx, likeCalls,
                   nextId>>

\* Deleting one item (the handler is not part of this source tree): the
\* session deletes the item with its images and wishlist entries
\* (Item.images, Item.wishlist_entries: cascade="all, delete-orphan").
delete_item ==
    /\ \E i \in ItemIds :
         /\ req' = [op |-> "delete_item", ids |-> {i}, patch |-> NoPatch, db_fails |-> FALSE]
         /\ IF i \notin DOMAIN items
            THEN /\ resp' = [status |-> "404", count |-> 0]
                 /\ UNCHANGED <<items, images, wishlist>>
            ELSE /\ OrmDelete({i})
                 /\ resp' = [status |-> "204", count |-> 1]
    /\ UNCHANGED <<categories, materials, tags, now, pc, arg, tx, ret, likeCalls, nextId>>

\* One session at a time; it chooses a primary image only as part of
\* creating one, and a wishlist entry goes only with its item.
NextStore ==
    \/ create_item_image(1, MaxRows)
    \/ pc[1] = "ci_set_primary" /\ set_primary_image_clear(1)
    \/ set_primary_image_set(1)
    \/ set_primary_image_commit(1)
    \/ delete_item_image(1)
    \/ nextId <= MaxRows /\ add_to_wishlist_check(1)
    \/ add_to_wishlist_commit(1)
    \/ bulk_delete_entities
    \/ delete_item

SpecStore == InitStore /\ [][NextStore]_vars

(* Claims about the store.                                                 *)

\* C20: whatever items, images and wishlist entries have been created and
\* deleted, every image row and every wishlist entry names an item that is
\* stored: the rows of a deleted item went with it.
C20_NoRowOfADeletedItem ==
    /\ \A k \in DOMAIN images : images[k].item_id \in DOMAIN items
    /\ \A e \in DOMAIN wishlist : wishlist[e].item_id \in DOMAIN items

\* A bulk delete has removed an item for which the session had just added
\* a wishlist entry, and the entry is gone; so is the seeded image of an
\* item no longer stored.
C20_Witness ==
    /\ req.op = "bulk_delete"
    /\ resp.status = "ok"
    /\ pc[1] = "idle"
    /\ arg[1].op = "add_to_wishlist"
    /\ ret[1].kind = "entry"
    /\ arg[1].pre = {}
    /\ arg[1].item_id \in req.ids
    /\ arg[1].item_id \notin DOMAIN items
    /\ \A e \in ret[1].id : e \notin DOMAIN wishlist
    /\ 1 \notin DOMAIN items
    /\ images = <<>>

-----------------------------------------------------------------------------
(* The wishlist manager: add, remove, clear and list, by one session.      *)

\* Wishlist entries ever created in one behaviour.
MaxEntries == 3

AnyOrder(a, b) == TRUE

\* ORDER BY created_at DESC (line 345): a before b is allowed.
NewestFirst(a, b) == a.created_at >= b.created_at

\* The lists the select of get_user_wishlist may give (lines 345-347): the
\* entries of the user, each once, in the order of the ORDER BY.
UserWishlist(wl, user) ==
    LET S == UserEntries(wl, user) IN
    { s \in [1..Cardinality(S) -> S] :
        \A k, l \in DOMAIN s : k < l => s[k] /= s[l] /\ NewestFirst(wl[s[k]], wl[s[l]]) }

\* get_user_wishlist(db, user_id): it reads and writes nothing.
get_user_wishlist ==
    /\ \E user \in UserIds :
         /\ req' = [op |-> "get_user_wishlist", user_id |-> user]
         /\ \E s \in UserWishlist(wishlist, user) :
              resp' = [status |-> "ok", entries |-> s]
    /\ UNCHANGED <<categories, materials, tags, now, items, images, wishlist, pc, arg, tx, ret,
                   likeCalls, nextId>>

NextWishlistOps ==
    \/ nextId <= MaxEntries /\ add_to_wishlist_check(1)
    \/ add_to_wishlist_commit(1)
    \/ remove_from_wishlist(1)
    \/ clear_user_wishlist(1)
    \/ get_user_wishlist

SpecWishlistOps == InitWishlist /\ [][NextWishlistOps]_vars

(* Claims about the wishlist manager.                                      *)

\* The step is a call of op by process p (a call that changes nothing and
\* repeats the record of the call before it is a stuttering step).
Calls(p, op) ==
    /\ arg'[p].op = op
    /\ <<arg'[p], ret'[p], wishlist'>> /= <<arg[p], ret[p], wishlist>>

\* Entry e of the wishlist is stored unchanged after the step.
Kept(e) == e \in DOMAIN wishlist' /\ wishlist'[e] = wishlist[e]

\* C24: remove_from_wishlist(user, item) returns True and deletes the one
\* entry of the pair when there is one; returns False, raising nothing, and
\* leaves the wishlist as it is when there is none; it removes no entry of
\* another user or of another item, and adds none.
C24_RemoveDeletesExactlyThePair ==
    [][\A p \in Procs :
         Calls(p, "remove_from_wishlist")
         => LET had == EntriesOf(wishlist, arg'[p].user_id, arg'[p].item_id) IN
            /\ had /= {} => /\ ret'[p].kind = "True"
                            /\ Cardinality(had) = 1
                            /\ DOMAIN wishlist' = DOMAIN wishlist \ had
            /\ had = {} => /\ ret'[p].kind = "False"
                           /\ wishlist' = wishlist
            /\ \A e \in DOMAIN wishlist \ had : Kept(e)
            /\ DOMAIN wishlist' \subseteq DOMAIN wishlist]_vars

\* A remove has returned True for a pair that had an entry; the entry is
\* gone, and the entry of another user for the same item and an entry of
\* the same user for another item are still stored.
C24_Witness ==
    /\ pc[1] = "idle"
    /\ arg[1].op = "remove_from_wishlist"
    /\ ret[1].kind = "True"
    /\ arg[1].pre /= {}
    /\ arg[1].pre \cap DOMAIN wishlist = {}
    /\ \E e, f \in DOMAIN wishlist :
         /\ wishlist[e].item_id = arg[1].item_id /\ wishlist[e].user_id /= arg[1].user_id
         /\ wishlist[f].user_id = arg[1].user_id /\ wishlist[f].item_id /= arg[1].item_id

\* C25: clear_user_wishlist(user) deletes every entry of the user and
\* returns how many there were, so that the user's wishlist then lists
\* nothing; every entry of another user is stored unchanged, and no entry is
\* added.
C25_ClearEmptiesOneUsersWishlist ==
    [][\A p \in Procs :
         Calls(p, "clear_user_wishlist")
         => LET mine == {e \in DOMAIN wishlist : wishlist[e].user_id = arg'[p].user_id} IN
            /\ ret'[p] = [kind |-> "count", id |-> {Cardinality(mine)}]
            /\ DOMAIN wishlist' = DOMAIN wishlist \ mine
            /\ \A e \in DOMAIN wishlist \ mine : Kept(e)
            /\ UserWishlist(wishlist', arg'[p].user_id) = {<<>>}]_vars

\* A clear has returned 2 for a user who had two entries, and the entry of
\* the other user is still stored.
C25_Witness ==
    /\ pc[1] = "idle"
    /\ arg[1].op = "clear_user_wishlist"
    /\ ret[1] = [kind |-> "count", id |-> {2}]
    /\ Cardinality(arg[1].pre) = 2
    /\ Cardinality(DOMAIN wishlist) = 1
    /\ \A e \in DOMAIN wishlist : wishlist[e].user_id /= arg[1].user_id

\* C26: get_user_wishlist(user) returns the stored entries of the user and
\* no other, each once and no two for one item, the entry created later
\* before the one created earlier.
C26_ListIsTheUsersEntriesNewestFirst ==
    [][(req'.op = "get_user_wishlist" /\ <<req', resp'>> /= <<req, resp>>)
       => LET s == resp'.entries
              mine == {e \in DOMAIN wishlist : wishlist[e].user_id = req'.user_id}
          IN /\ resp'.status = "ok"
             /\ {s[k] : k \in DOMAIN s} = mine
             /\ Len(s) = Cardinality(mine)
             /\ \A k, l \in DOMAIN s :
                  k < l => /\ wishlist[s[k]].created_at >= wishlist[s[l]].created_at
                           /\ wishlist[s[k]].item_id /= wishlist[s[l]].item_id
             /\ wishlist' = wishlist]_vars

\* A listing has returned the two entries of a user, the later one first,
\* after the user removed an entry, and while the other user has an entry.
C26_Witness ==
    /\ req.op = "get_user_wishlist"
    /\ Len(resp.entries) = 2
    /\ {resp.entries[1], resp.entries[2]} \subseteq DOMAIN wishlist
    /\ wishlist[resp.entries[1]].created_at > wishlist[resp.entries[2]].created_at
    /\ \E e \in DOMAIN wishlist : wishlist[e].user_id /= req.user_id
    /\ Cardinality(DOMAIN wishlist) = 3

-----------------------------------------------------------------------------
(* Creating and updating categories, materials and tags: the POST and      *)
(* PATCH /{id} endpoints of routers/shop.py.                               *)

\* The ids a request can name: those of the stored rows, which are 1..n
\* while nothing is deleted, and one that is not stored; a create takes it.
IdsOrNext(t) == 1..(Cardinality(DOMAIN t) + 1)

\* A field of a request body: absent ({}), or given with a value.  A
\* description may be given as null ({}) or as a text.
OptName == {{}, {<<12>>}}
OptDescription == {{}, {{}}, {{<<1>>}}}

\* CategoryCreate / CategoryUpdate: a slug that is stored, or one that is not.
CategoryBodies ==
    [name : OptName, slug : {{}, {<<2, 1>>}, {<<1>>}}, description : {{}, {{<<1>>}}}]

\* MaterialCreate / MaterialUpdate.
MaterialBodies == [name : OptName, description : OptDescription]

\* TagCreate / TagUpdate: a name that is stored, or one that is not.
TagBodies == [name : {{}, {<<2>>}, {<<12>>}}]

\* A create body has its required fields: name, and slug where there is one.
Complete(body) == \A f \in DOMAIN body : f /= "description" => body[f] /= {}

AssignedOrDefault(row, body) ==
    [f \in DOMAIN row |->
        IF f \in DOMAIN body /\ body[f] /= {} THEN CHOOSE v \in body[f] : TRUE
        ELSE IF f = "description" THEN {} ELSE row[f]]

\* model_dump(exclude_unset=True) and setattr (lines 98-100): the fields the
\* request set are assigned, the others left as they are.
Assigned(row, body) ==
    [f \in DOMAIN row |->
        IF f \in DOMAIN body /\ body[f] /= {} THEN CHOOSE v \in body[f] : TRUE
        ELSE row[f]]

AcceptsAll(t, unique) == TRUE

\* The unique indexes of the table (categories.slug, tags.name) accept its
\* rows.
Accepts(t, unique) ==
    \A column \in unique : \A a, b \in DOMAIN t : t[a][column] = t[b][column] => a = b

\* db.add(Model(**body.model_dump())), commit (lines 74-82): the row is
\* stored with the time of the insert, or the commit raises, the session is
\* rolled back and the handler answers 400.
Created(t, body, unique) ==
    LET id == CHOOSE n \in IdsOrNext(t) : n \notin DOMAIN t
        row == [f \in DOMAIN body \cup {"updated_at"} |->
                   IF f = "updated_at" THEN now
                   ELSE IF f = "description"
                   THEN UNION body[f] ELSE CHOOSE v \in body[f] : TRUE]
        u == t @@ (id :> row)
    IN IF Accepts(u, unique) THEN [status |-> "201", tbl |-> u]
       ELSE [status |-> "400", tbl |-> t]

\* select, setattr, commit (lines 93-108): 404 for an id that is not stored;
\* the session writes the row, stamping updated_at, when a field changed;
\* when the commit raises it is rolled back and the handler answers 400.
Modified(t, id, body, unique) ==
    IF id \notin DOMAIN t THEN [status |-> "404", tbl |-> t]
    ELSE LET row == Assigned(t[id], body) IN
         IF row = t[id] THEN [status |-> "200", tbl |-> t]
         ELSE LET u == [t EXCEPT ![id] = [row EXCEPT !.updated_at = now]] IN
              IF Accepts(u, unique) THEN [status |-> "200", tbl |-> u]
              ELSE [status |-> "400", tbl |-> t]

\* The request of a step, its answer and the clock after it.
Answers(op, id, body, r, t) ==
    /\ req' = [op |-> op, id |-> id, body |-> body]
    /\ resp' = [status |-> r.status]
    /\ now' = IF r.tbl /= t THEN now + 1 ELSE now

\* POST /categories (lines 67-82).
create_category ==
    /\ now <= MaxTime
    /\ \E body \in CategoryBodies :
         LET r == Created(categories, body, {"slug"}) IN
         /\ Complete(body)
         /\ categories' = r.tbl
         /\ Answers("create_category", 0, body, r, categories)
    /\ UNCHANGED <<materials, tags, items, images, wishlist, pc, arg, tx, ret, likeCalls, nextId>>

\* PATCH /categories/{category_id} (lines 85-108).
update_category ==
    /\ now <= MaxTime
    /\ \E id \in IdsOrNext(categories), body \in CategoryBodies :
         LET r == Modified(categories, id, body, {"slug"}) IN
         /\ categories' = r.tbl
         /\ Answers("update_category", id, body, r, categories)
    /\ UNCHANGED <<materials, tags, items, images, wishlist, pc, arg, tx, ret, likeCalls, nextId>>

\* POST /materials (lines 178-193).
create_material ==
    /\ now <= MaxTime
    /\ \E body \in MaterialBodies :
         LET r == Created(materials, body, {}) IN
         /\ Complete(body)
         /\ materials' = r.tbl
         /\ Answers("create_material", 0, body, r, materials)
    /\ UNCHANGED <<categories, tags, items, images, wishlist, pc, arg, tx, ret, likeCalls, nextId>>

\* PATCH /materials/{material_id} (lines 196-219).
update_material ==
    /\ now <= MaxTime
    /\ \E id \in IdsOrNext(materials), body \in MaterialBodies :
         LET r == Modified(materials, id, body, {}) IN
         /\ materials' = r.tbl
         /\ Answers("update_material", id, body, r, materials)
    /\ UNCHANGED <<categories, tags, items, images, wishlist, pc, arg, tx, ret, likeCalls, nextId>>

\* POST /tags (lines 284-299).
create_tag ==
    /\ now <= MaxTime
    /\ \E body \in TagBodies :
         LET r == Created(tags, body, {"name"}) IN
         /\ Complete(body)
         /\ tags' = r.tbl
         /\ Answers("create_tag", 0, body, r, tags)
    /\ UNCHANGED <<categories, materials, items, images, wishlist, pc, arg, tx, ret, likeCalls, nextId>>

\* PATCH /tags/{tag_id} (lines 302-325).
update_tag ==
    /\ now <= MaxTime
    /\ \E id \in IdsOrNext(tags), body \in TagBodies :
         LET r == Modified(tags, id, body, {"name"}) IN
         /\ tags' = r.tbl
         /\ Answers("update_tag", id, body, r, tags)
    /\ UNCHANGED <<categories, materials, items, images, wishlist, pc, arg, tx, ret, likeCalls, nextId>>

InitEdit ==
    /\ items = StoredItems
    /\ images = <<>>
    /\ wishlist = <<>>
    /\ req = [op |-> "none", id |-> 0, body |-> [name |-> {}]]
    /\ resp = [status |-> "none"]
    /\ NoProcState
    /\ likeCalls = [i \in ItemIds |-> 0]
    /\ nextId = 1
    /\ SeededCatalog

NextEdit ==
    \/ create_category
    \/ update_category
    \/ create_material
    \/ update_material
    \/ create_tag
    \/ update_tag

SpecEdit == InitEdit /\ [][NextEdit]_vars

(* Claims about creating and updating categories, materials and tags.      *)

\* The table a request is for, before and after the step.
TableOf(r) ==
    CASE r.op \in {"create_category", "update_category"} -> categories
      [] r.op \in {"create_material", "update_material"} -> materials
      [] OTHER -> tags

TableAfter(r) ==
    CASE r.op \in {"create_category", "update_category"} -> categories'
      [] r.op \in {"create_material", "update_material"} -> materials'
      [] OTHER -> tags'

\* The unique field of the request's table, if it has one.
UniqueFieldOf(r) ==
    CASE r.op \in {"create_category", "update_category"} -> {"slug"}
      [] r.op \in {"create_tag", "update_tag"} -> {"name"}
      [] OTHER -> {}

\* The request gives the unique field the value another stored row has.
WouldRepeat(r) ==
    /\ r.op \in {"update_category", "update_tag"} => r.id \in DOMAIN TableOf(r)
    /\ \E f \in UniqueFieldOf(r) : \E v \in r.body[f] :
         \E other \in DOMAIN TableOf(r) \ {r.id} : TableOf(r)[other][f] = v

NoTableChanges ==
    /\ categories' = categories
    /\ materials' = materials
    /\ tags' = tags
    /\ items' = items

\* C27: a create or an update that would give a second row the slug of a
\* category or the name of a tag is answered with an error, and every table
\* is after the call as it was before it; and no two stored categories have
\* one slug, no two stored tags one name.
C27_RepeatedUniqueFieldIsRefused ==
    [][/\ WouldRepeat(req') => (resp'.status = "400" /\ NoTableChanges)
       /\ \A a, b \in DOMAIN categories' :
            categories'[a].slug = categories'[b].slug => a = b
       /\ \A a, b \in DOMAIN tags' : tags'[a].name = tags'[b].name => a = b]_vars

\* An update that gave a category a new name and the slug of another
\* category has been refused, and the category has the name it had.
C27_Witness ==
    /\ req.op = "update_category"
    /\ resp.status = "400"
    /\ req.id \in DOMAIN categories
    /\ \E v \in req.body.slug : \E other \in DOMAIN categories \ {req.id} :
         categories[other].slug = v
    /\ \E n \in req.body.name : categories[req.id].name /= n
    /\ categories = StoredCategories

\* The fields of a row a request can set.
BodyFields(r) == DOMAIN r.body

\* C28: an update of one category, material or tag leaves every field the
\* request did not supply at its value (updated_at, which the database
\* stamps, aside), gives every supplied field the supplied value when it is
\* accepted, and leaves every other row and every other table as they
\* were; for an id that is not stored it answers 404 and changes nothing.
C28_UpdateChangesOnlySuppliedFields ==
    [][req'.op \in {"update_category", "update_material", "update_tag"}
       => LET t == TableOf(req')
              u == TableAfter(req')
              id == req'.id
          IN /\ id \notin DOMAIN t => (resp'.status = "404" /\ NoTableChanges)
             /\ DOMAIN u = DOMAIN t
             /\ \A j \in DOMAIN t \ {id} : u[j] = t[j]
             /\ id \in DOMAIN t =>
                  /\ resp'.status \in {"200", "400"}
                  /\ \A f \in BodyFields(req') :
                       /\ req'.body[f] = {} => u[id][f] = t[id][f]
                       /\ (req'.body[f] /= {} /\ resp'.status = "200")
                            => u[id][f] \in req'.body[f]
             /\ req'.op /= "update_category" => categories' = categories
             /\ req'.op /= "update_material" => materials' = materials
             /\ req'.op /= "update_tag" => tags' = tags
             /\ items' = items]_vars

\* An update that supplied only a name has renamed a category that keeps
\* its slug and its description, while the other category keeps the name.
C28_Witness ==
    /\ req.op = "update_category"
    /\ resp.status = "200"
    /\ req.body.slug = {} /\ req.body.description = {}
    /\ req.id \in DOMAIN categories
    /\ categories[req.id].name \in req.body.name
    /\ categories[req.id].name /= StoredCategories[req.id].name
    /\ categories[req.id].slug = StoredCategories[req.id].slug
    /\ categories[req.id].description = StoredCategories[req.id].description
    /\ categories[req.id].description /= {}
    /\ categories[req.id].updated_at > StoredCategories[req.id].updated_at
    /\ \E other \in DOMAIN categories \ {req.id} :
         categories[other] = StoredCategories[other]

-----------------------------------------------------------------------------
(* Items: created, updated one at a time, updated in bulk and liked.       *)

\* stock_quantity values a validated request may carry (ge=0).
Stocks == {0, 1}

\* Patches of a bulk update of items that give one column a value: a sku,
\* or a number the item schemas refuse.  The bulk request takes any dict
\* (patch: dict), and neither bulk_update_entities nor the table checks a
\* value.
ItemPatches ==
    { [NoPatch EXCEPT !.sku = {1}], [NoPatch EXCEPT !.price = {0}],
      [NoPatch EXCEPT !.stock_quantity = {-1}], [NoPatch EXCEPT !.likes = {-1}] }

bulk_update_items == BulkUpdate(ItemPatches)

\* ItemCreate: sku, price_decimal > 0, stock_quantity >= 0; the row gets a
\* fresh id, likes 0 and the timestamps of the insert.  The unique index on
\* sku refuses a second row with a stored sku.
create_item ==
    /\ now <= MaxTime
    /\ \E i \in ItemIds \ DOMAIN items, sku \in SkuValues, price \in Prices,
          stock \in Stocks :
         LET row == [ItemRow(i, price, TRUE, 0) EXCEPT
                        !.sku = sku, !.stock_quantity = stock,
                        !.created_at = now, !.updated_at = now]
             t == items @@ (i :> row)
         IN /\ req' = [op |-> "create_item", ids |-> {i},
                       patch |-> [NoPatch EXCEPT !.sku = {sku}, !.price = {price},
                                                 !.stock_quantity = {stock}],
                       db_fails |-> FALSE]
            /\ IF SkuUnique(t)
               THEN /\ items' = t
                    /\ now' = now + 1
                    /\ resp' = [status |-> "201", count |-> 1]
               ELSE /\ resp' = [status |-> "400", count |-> 0]
                    /\ UNCHANGED <<items, now>>
    /\ UNCHANGED <<categories, materials, tags, images, wishlist, pc, arg, tx, ret, likeCalls, nextId>>

\* ItemUpdate: every field optional; sku, price_decimal > 0 and
\* stock_quantity >= 0 when given.
ItemUpdates ==
    [sku : {{}, {1}}, is_active : {{}},
     price : {{}, {MaxPrice}}, stock_quantity : {{}, {1}}, likes : {{}}]

\* A single partial update: the fields the request set are assigned to the
\* loaded row and the session is committed; it writes the row, and stamps
\* updated_at, only when a field changed.
update_item ==
    /\ now <= MaxTime
    /\ \E i \in ItemIds, pt \in ItemUpdates :
         /\ req' = [op |-> "update_item", ids |-> {i}, patch |-> pt, db_fails |-> FALSE]
         /\ IF i \notin DOMAIN items
            THEN /\ resp' = [status |-> "404", count |-> 0]
                 /\ UNCHANGED <<items, now>>
            ELSE IF Patched(items[i], pt) = items[i]
            THEN /\ resp' = [status |-> "200", count |-> 0]
                 /\ UNCHANGED <<items, now>>
            ELSE LET t == [items EXCEPT ![i] = Updated(items[i], pt)] IN
                 IF SkuUnique(t)
                 THEN /\ items' = t
                      /\ now' = now + 1
                      /\ resp' = [status |-> "200", count |-> 1]
                 ELSE /\ resp' = [status |-> "400", count |-> 0]
                      /\ UNCHANGED <<items, now>>
    /\ UNCHANGED <<categories, materials, tags, images, wishlist, pc, arg, tx, ret, likeCalls, nextId>>

InitItems ==
    /\ items = StoredItems
    /\ images = <<>>
    /\ wishlist = <<>>
    /\ req = [op |-> "none", ids |-> {}, patch |-> NoPatch, db_fails |-> FALSE]
    /\ resp = [status |-> "none", count |-> 0]
    /\ NoProcState
    /\ likeCalls = [i \in ItemIds |-> 0]
    /\ nextId = 1
    /\ SeededCatalog

\* One session at a time, until the clock stops.
NextItems ==
    \/ create_item
    \/ update_item
    \/ bulk_update_items
    \/ now <= MaxTime /\ increment_item_likes_update(1)
    \/ increment_item_likes_commit(1)
    \/ increment_item_likes_return(1)

SpecItems == InitItems /\ [][NextItems]_vars

(* Claims about the items.                                                 *)

\* C21: whatever items have been created, updated, updated in bulk and
\* liked, no two stored items have one sku, and every stored item has a
\* positive price, a stock_quantity of at least 0 and at least 0 likes.
C21_ItemsKeepTheirConstraints ==
    /\ SkuUnique(items)
    /\ \A i \in DOMAIN items :
         /\ items[i].price > 0
         /\ items[i].stock_quantity >= 0
         /\ items[i].likes >= 0

====
